---------------------------- MODULE Spec2Model ----------------------------
(***************************************************************************)
(* Model of cosmic-files' icon cache (src/app/icons.rs) and menu builders  *)
(* (src/menu.rs).                                                          *)
(*                                                                         *)
(* Spec      worker threads calling the global get_icon / get_handle on    *)
(*           the mutex-guarded ICON_CACHE.                                 *)
(* MenuSpec  the UI thread calling context_menu, dialog_menu, menu_bar and *)
(*           location_context_menu on a tab drawn from bounded inputs.     *)
(***************************************************************************)
EXTENDS Integers, Sequences, FiniteSets, TLC

VARIABLES
    cache,          \* IconCache.cache : IconCacheKey -> icon::Handle
    themeLookups,   \* per key, how many times the icon::from_name closure ran
    mutex,          \* owner of the Mutex around ICON_CACHE, or NoThread
    pc,             \* per thread, its position in get_icon / get_handle
    call,           \* per thread, the current call's arguments and locals
    feature_desktop,\* whether the build has cfg(feature = "desktop")
    tab_opt,        \* the tab the menus are built for, or NoTab
    config,         \* the application Config
    key_binds,      \* the key-binding table: a set of <<key, Action>>
    last            \* the menu the last builder call returned

cacheVars == <<cache, themeLookups, mutex, pc, call>>

menuVars == <<feature_desktop, tab_opt, config, key_binds, last>>

-----------------------------------------------------------------------------
(* Bounds *)

NumThreads == 2

\* Longest item list of a tab.
MaxItems == 2

\* Largest number of trash entries tab::trash_entries() reports.
MaxTrash == 1

\* Largest ancestor_index handed to location_context_menu.
MaxAncestor == 1

Threads == 1..NumThreads

NoThread == 0

-----------------------------------------------------------------------------
(* icons.rs *)

\* The size every bundle! invocation and every menu lookup uses.
BundledSize == 14

\* The bundle! invocations of IconCache::new, in source order.
BundledIcons ==
    << "tab-new-filled-symbolic", "value-increase-symbolic",
       "value-decrease-symbolic", "loupe-symbolic", "folder-symbolic",
       "folder-new-symbolic", "edit-copy-symbolic", "paper-symbolic",
       "document-open-symbolic", "arrow-into-box-symbolic", "edit-symbolic",
       "user-trash-symbolic", "cross-small-square-filled-symbolic",
       "external-link-symbolic", "cut-symbolic", "copy-symbolic",
       "clipboard-symbolic", "edit-select-all-symbolic",
       "history-undo-symbolic", "grid-symbolic", "list-large-symbolic",
       "view-conceal-symbolic", "settings-symbolic", "info-outline-symbolic",
       "dock-left-symbolic", "arrow-into-box-symbolic", "image-round-symbolic",
       "terminal-symbolic", "symbolic-link-symbolic",
       "package-x-generic-symbolic", "archive-extract-symbolic",
       "brush-monitor-symbolic", "display-symbolic", "shell-overview-symbolic",
       "empty-trash-bin-symbolic" >>

\* IconCacheKey { name, size }
IconCacheKey(name, size) == <<name, size>>

\* icon::from_svg_bytes(data).symbolic(true) of the bundled file of `name`.
\* gen = 0: no theme lookup produced it.
SvgHandle(name) == [kind |-> "svg", name |-> name, size |-> 0, gen |-> 0]

\* No handle (a local not yet assigned).
NoHandle == [kind |-> "none", name |-> "", size |-> 0, gen |-> 0]

\* The closure || icon::from_name(name).size(size).handle(); gen tells which
\* run of the closure for this key produced the handle.
ThemeLookupUnsized(name, size, gen) ==
    [kind |-> "named", name |-> name, size |-> 0, gen |-> gen]

ThemeLookup(name, size, gen) ==
    [kind |-> "named", name |-> name, size |-> size, gen |-> gen]

\* HashMap::insert
MapInsert(c, k, h) == [x \in DOMAIN c \cup {k} |-> IF x = k THEN h ELSE c[x]]

\* One expansion of the bundle! macro.
BundleWrongSize(c, name, size) == MapInsert(c, IconCacheKey(name, size + 2), SvgHandle(name))

Bundle(c, name, size) == MapInsert(c, IconCacheKey(name, size), SvgHandle(name))

EmptyMap == [x \in {} |-> NoHandle]

RECURSIVE BundleAll(_, _)
BundleAll(c, names) ==
    IF names = <<>> THEN c
    ELSE BundleAll(Bundle(c, Head(names), BundledSize), Tail(names))

\* IconCache::new
IconCache_new == BundleAll(EmptyMap, BundledIcons)

BundledNames == {BundledIcons[i] : i \in DOMAIN BundledIcons}

BundledKeys == {IconCacheKey(n, BundledSize) : n \in BundledNames}

\* Names and sizes the worker threads ask for: a bundled name, a name that is
\* not bundled, each at the bundled size and at another size.
LookupNames == {"document-open-symbolic", "image-symbolic"}

LookupSizes == {BundledSize, BundledSize + 2}

LookupKeys == {IconCacheKey(n, s) : n \in LookupNames, s \in LookupSizes}

AllKeys == BundledKeys \cup LookupKeys

Ops == {"get_icon", "get_handle"}

NoCall ==
    [op |-> "none", key |-> <<"", 0>>, vacant |-> FALSE, looked |-> 0,
     handle |-> NoHandle, ret |-> NoHandle]

\* .entry(key): is the entry vacant?
EntryVacant(c, k) == k \notin DOMAIN c

\* .or_insert_with(f): run f and insert only when the entry was vacant.
\* Result: the map, the handle now stored, whether f ran.
OrInsertEager(c, k, vacant, n) ==
    [cache  |-> IF vacant THEN MapInsert(c, k, ThemeLookup(k[1], k[2], n + 1)) ELSE c,
     handle |-> IF vacant THEN ThemeLookup(k[1], k[2], n + 1) ELSE c[k],
     looked |-> TRUE]

InsertAlways(c, k, vacant, n) ==
    [cache  |-> MapInsert(c, k, ThemeLookup(k[1], k[2], n + 1)),
     handle |-> ThemeLookup(k[1], k[2], n + 1),
     looked |-> TRUE]

OrInsertByName(c, k, vacant, n) ==
    IF \E x \in DOMAIN c : x[1] = k[1]
    THEN [cache |-> c,
          handle |-> c[CHOOSE x \in DOMAIN c : x[1] = k[1]],
          looked |-> FALSE]
    ELSE [cache  |-> MapInsert(c, k, ThemeLookup(k[1], k[2], n + 1)),
          handle |-> ThemeLookup(k[1], k[2], n + 1),
          looked |-> TRUE]

OrInsertWith(c, k, vacant, n) ==
    IF vacant
    THEN [cache  |-> MapInsert(c, k, ThemeLookup(k[1], k[2], n + 1)),
          handle |-> ThemeLookup(k[1], k[2], n + 1),
          looked |-> TRUE]
    ELSE [cache |-> c, handle |-> c[k], looked |-> FALSE]

\* icon::icon(handle).size(size)
IconOf(handle, size) == [kind |-> "icon", name |-> handle.name, size |-> size, gen |-> handle.gen]

\* What the method returns: get_icon wraps the handle, get_handle returns it.
Returned(op, handle, size) ==
    IF op = "get_icon" THEN IconOf(handle, size) ELSE handle

\* Mutex::lock succeeds only when nobody holds the mutex.
MutexIgnored == TRUE

MutexFree == mutex = NoThread

-----------------------------------------------------------------------------
(* menu.rs: inputs *)

\* tab::Mode. A dialog mode carries its DialogKind.
Modes == {"App", "Desktop", "DialogOpen", "DialogOpenMultiple", "DialogSave"}

IsDialog(mode) == mode \in {"DialogOpen", "DialogOpenMultiple", "DialogSave"}

\* tab::Mode::multiple (tab.rs): App and Desktop select several items, a
\* dialog does when its kind does.
ModeMultiple(mode) == mode \in {"App", "Desktop", "DialogOpenMultiple"}

\* DialogKind::save (dialog.rs)
DialogKindSave(mode) == mode = "DialogSave"

\* tab::Location, without the payloads the menus do not read.
Locations == {"Desktop", "Path", "Search", "Recents", "Network", "Trash"}

\* tab::HeadingOptions
Headings == {"Name", "Modified", "TrashedOn", "Size"}

\* The items a tab can hold: what the menus read of a tab::Item.
\*   is_dir       item.metadata.is_dir()
\*   location     item.location_opt: "Path", "Trash" or "None"
\*   ext          the path's extension
\*   mime         item.mime
\*   can_gallery  item.can_gallery()
ItemKinds ==
    { [name |-> "Documents", is_dir |-> TRUE, location |-> "Path", ext |-> "",
       mime |-> "inode/directory", can_gallery |-> FALSE],
      [name |-> "photo.png", is_dir |-> FALSE, location |-> "Path", ext |-> "png",
       mime |-> "image/png", can_gallery |-> TRUE],
      [name |-> "backup.zip", is_dir |-> FALSE, location |-> "Path", ext |-> "zip",
       mime |-> "application/zip", can_gallery |-> FALSE],
      [name |-> "editor.desktop", is_dir |-> FALSE, location |-> "Path", ext |-> "desktop",
       mime |-> "application/x-desktop", can_gallery |-> FALSE],
      [name |-> "Trash", is_dir |-> TRUE, location |-> "Trash", ext |-> "",
       mime |-> "inode/directory", can_gallery |-> FALSE] }

WithSelected(kind, sel) ==
    [name |-> kind.name, is_dir |-> kind.is_dir, location |-> kind.location,
     ext |-> kind.ext, mime |-> kind.mime, can_gallery |-> kind.can_gallery,
     selected |-> sel]

PhotoItem == CHOOSE k \in ItemKinds : k.name = "photo.png"

\* The builders read nothing of an item that is not selected, so one
\* unselected item stands for all of them.
Items ==
    {WithSelected(k, TRUE) : k \in ItemKinds} \cup {WithSelected(PhotoItem, FALSE)}

ItemLists == UNION {[1..n -> Items] : n \in 0..MaxItems}

NoTab == [some |-> FALSE]

\* What the menus read of a Tab.
MkTab(mode, location, loaded, items, heading, direction, view, hidden, first) ==
    [some |-> TRUE, mode |-> mode, location |-> location,
     items_loaded |-> loaded, items |-> items,
     sort_name |-> heading, sort_direction |-> direction,
     view |-> view, show_hidden |-> hidden, folders_first |-> first]

\* Tabs of every mode and location with every item list, default view.
ItemTabs ==
    {MkTab(m, l, TRUE, is, "Name", TRUE, "List", FALSE, TRUE) :
        m \in Modes, l \in Locations, is \in ItemLists}

\* Tabs whose items are not loaded: items_opt() is None.
UnloadedTabs ==
    {MkTab(m, l, FALSE, <<>>, "Name", TRUE, "List", FALSE, TRUE) :
        m \in Modes, l \in Locations}

\* Tabs of every sort order and view configuration.
ViewTabs ==
    {MkTab(m, l, TRUE, is, h, d, v, sh, ff) :
        m \in {"App"}, l \in {"Path", "Trash"},
        is \in {<<>>, <<WithSelected(PhotoItem, TRUE)>>},
        h \in Headings, d \in BOOLEAN, v \in {"Grid", "List"},
        sh \in BOOLEAN, ff \in BOOLEAN}

\* Key-binding tables: one binding per action, and two bindings for Copy.
UniqueKeyBinds == { <<"Ctrl+C", "Copy">>, <<"F2", "Rename">> }

DoubleKeyBinds == { <<"Ctrl+C", "Copy">>, <<"Ctrl+Insert", "Copy">> }

MenuInputs ==
    [tab : ItemTabs \cup UnloadedTabs, show_details : {FALSE},
     key_binds : {DoubleKeyBinds},
     feature_desktop : BOOLEAN]
    \cup
    [tab : ViewTabs \cup {NoTab}, show_details : BOOLEAN,
     key_binds : {UniqueKeyBinds}, feature_desktop : {TRUE}]

\* The orders in which a HashMap holding `table` may iterate: the order is
\* unspecified and differs between instances (RandomState).
IterOrders(table) ==
    {s \in [1..Cardinality(table) -> table] :
        \A i, j \in DOMAIN s : i # j => s[i] # s[j]}

\* What cosmic::desktop::load_desktop_file may return for a .desktop path:
\* nothing, or an entry with its desktop actions.
NoEntry == [some |-> FALSE, actions |-> <<>>]

DesktopLoads == {NoEntry, [some |-> TRUE, actions |-> <<"new-window">>]}

-----------------------------------------------------------------------------
(* menu.rs: menu elements *)

\* One element of a built menu. `icon` is the icon's name until the icon is
\* resolved, then its handle; `via` tells how the code loads it:
\*   "cache"  icons::get_handle(name, 14)
\*   "direct" widget::icon::from_name(name)
\*   "none"   no icon
Elem(type, label, icon, via, checked, action) ==
    [type |-> type, label |-> label, suffix |-> "", icon |-> icon, via |-> via,
     checked |-> checked, action |-> action, key |-> ""]

Divider == Elem("Divider", "", "", "none", FALSE, "")

MenuButtonHidden(label, icon, action, enabled) ==
    IF enabled THEN Elem("Button", label, icon, "cache", FALSE, action)
    ELSE Elem("Divider", "", "", "none", FALSE, "")

MenuButtonAlways(label, icon, action, enabled) ==
    Elem("Button", label, icon, "cache", FALSE, action)

\* menu_button_optional
menu_button_optional(label, icon, action, enabled) ==
    IF enabled THEN Elem("Button", label, icon, "cache", FALSE, action)
    ELSE Elem("ButtonDisabled", label, icon, "cache", FALSE, action)

Min(S) == CHOOSE x \in S : \A y \in S : x <= y

\* context_menu's find_key: the first binding of `action` in the table's
\* iteration order.
find_key(key_iter, action) ==
    LET hits == {i \in DOMAIN key_iter : key_iter[i][2] = action}
    IN IF hits = {} THEN "" ELSE key_iter[Min(hits)][1]

\* context_menu's menu_item
menu_item(key_iter, label, icon, action) ==
    [Elem("Button", label, icon, IF icon = "" THEN "none" ELSE "cache", FALSE, action)
        EXCEPT !.key = find_key(key_iter, action)]

ToggleSort(variant) ==
    CASE variant = "Name" -> "ToggleSort(Name)"
      [] variant = "Modified" -> "ToggleSort(Modified)"
      [] variant = "TrashedOn" -> "ToggleSort(TrashedOn)"
      [] variant = "Size" -> "ToggleSort(Size)"

\* context_menu's sort_item: the label gets an arrow when the tab is sorted
\* by `variant`.
ctx_sort_item(key_iter, tab, label, variant) ==
    [menu_item(key_iter, label, "", ToggleSort(variant)) EXCEPT !.suffix =
        IF tab.sort_name = variant
        THEN (IF tab.sort_direction THEN "down" ELSE "up")
        ELSE ""]

Opt(cond, elems) == IF cond THEN elems ELSE <<>>

-----------------------------------------------------------------------------
(* menu.rs: context_menu *)

\* The mime types of supported_archive_types that every build has.
SupportedArchiveTypes ==
    {"application/gzip", "application/x-compressed-tar", "application/x-tar",
     "application/zip"}

NoScan ==
    [selected |-> 0, selected_dir |-> 0, selected_trash_only |-> FALSE,
     selected_desktop_entry |-> "", selected_types |-> {}]

\* The loop over tab.items_opt() of context_menu, in item order.
RECURSIVE ContextScan(_, _)
ContextScan(items, acc) ==
    IF items = <<>> THEN acc
    ELSE LET item == Head(items)
             n == acc.selected + 1
         IN IF ~item.selected THEN ContextScan(Tail(items), acc)
            ELSE ContextScan(Tail(items),
                   [selected |-> n,
                    selected_dir |-> acc.selected_dir + (IF item.is_dir THEN 1 ELSE 0),
                    selected_trash_only |->
                        acc.selected_trash_only \/ item.location = "Trash",
                    selected_desktop_entry |->
                        IF item.location = "Path" /\ n = 1 /\ item.ext = "desktop"
                        THEN item.name
                        ELSE acc.selected_desktop_entry,
                    selected_types |-> acc.selected_types \cup {item.mime}])

\* The desktop entry after "Parse the desktop entry if it is the only
\* selection": with feature "desktop" the path is parsed when selected == 1,
\* without it the path found by the scan is kept as it is.
DesktopEntry(feature, scan, loaded) ==
    IF scan.selected_desktop_entry = "" THEN NoEntry
    ELSE IF feature
         THEN (IF scan.selected = 1 THEN loaded ELSE NoEntry)
         ELSE [some |-> TRUE, actions |-> <<>>]

\* The entries of the desktop file's own actions (feature "desktop").
RECURSIVE EntryActions(_, _, _)
EntryActions(key_iter, actions, i) ==
    IF i > Len(actions) THEN <<>>
    ELSE <<menu_item(key_iter, actions[i], "", "ExecEntryAction")>>
         \o EntryActions(key_iter, actions, i + 1)

\* The three sort toggles at the end of a no-selection menu.
SortToggles(key_iter, tab, date_label, date_variant) ==
    << ctx_sort_item(key_iter, tab, "sort-by-name", "Name"),
       ctx_sort_item(key_iter, tab, date_label, date_variant),
       ctx_sort_item(key_iter, tab, "sort-by-size", "Size") >>

OpenShown(scan) ==
    (scan.selected_dir = 1 /\ scan.selected = 1) \/ scan.selected_dir = 0

AnyDir(scan) == scan.selected_dir > 0

\* "All selected items are directories": selected == selected_dir
AllDirs(scan) == scan.selected = scan.selected_dir

ExtractAnySupported(scan) == scan.selected_types \cap SupportedArchiveTypes # {}

\* selected_types.retain(not supported); selected_types.is_empty()
ExtractOffered(scan) == scan.selected_types \ SupportedArchiveTypes = {}

\* (App | Desktop, Desktop | Path | Search | Recents), selected_trash_only
TrashOnlyMenu(K, trash_entries) ==
    << menu_item(K, "open", "document-open-symbolic", "Open") >>
    \o Opt(trash_entries > 0,
           << menu_item(K, "empty-trash", "user-trash-symbolic", "EmptyTrash") >>)

\* ... else if let Some(entry) = selected_desktop_entry
DesktopEntryMenu(K, feature, entry) ==
    << menu_item(K, "open", "document-open-symbolic", "Open") >>
    \o Opt(feature, EntryActions(K, entry.actions, 1))
    \o << Divider,
          menu_item(K, "rename", "edit-symbolic", "Rename"),
          menu_item(K, "cut", "cut-symbolic", "Cut"),
          menu_item(K, "copy", "copy-symbolic", "Copy"),
          menu_item(K, "move-to-trash", "user-trash-symbolic", "MoveToTrash") >>

\* ... else if selected > 0
SelectionMenu(K, tab, scan) ==
    Opt(OpenShown(scan),
        << menu_item(K, "open", "document-open-symbolic", "Open") >>)
    \o Opt(scan.selected = 1,
           << menu_item(K, "open-with", "external-link-symbolic", "OpenWith") >>
           \o Opt(scan.selected_dir = 1,
                  << menu_item(K, "open-in-terminal", "terminal-symbolic", "OpenTerminal") >>))
    \o Opt(tab.location = "Search",
           << menu_item(K, "open-item-location", "symbolic-link-symbolic", "OpenItemLocation") >>)
    \o Opt(AllDirs(scan) /\ tab.mode = "App",
           << menu_item(K, "open-in-new-tab", "tab-new-filled-symbolic", "OpenInNewTab"),
              menu_item(K, "open-in-new-window", "edit-copy-symbolic", "OpenInNewWindow") >>)
    \o << Divider,
          menu_item(K, "rename", "edit-symbolic", "Rename"),
          menu_item(K, "cut", "cut-symbolic", "Cut"),
          menu_item(K, "copy", "copy-symbolic", "Copy"),
          Divider >>
    \o Opt(ExtractOffered(scan),
           << menu_item(K, "extract-here", "archive-extract-symbolic", "ExtractHere") >>)
    \o << menu_item(K, "compress", "package-x-generic-symbolic", "Compress"),
          Divider,
          menu_item(K, "show-details", "info-outline-symbolic", "Preview") >>
    \o Opt(tab.mode = "App",
           << Divider,
              menu_item(K, "add-to-sidebar", "dock-left-symbolic", "AddToSidebar") >>)
    \o << Divider,
          menu_item(K, "move-to-trash", "user-trash-symbolic", "MoveToTrash") >>

\* ... else (nothing selected)
NoSelectionMenu(K, tab) ==
    << menu_item(K, "new-folder", "folder-new-symbolic", "NewFolder"),
       menu_item(K, "new-file", "paper-symbolic", "NewFile"),
       menu_item(K, "open-in-terminal", "terminal-symbolic", "OpenTerminal"),
       Divider >>
    \o Opt(ModeMultiple(tab.mode),
           << menu_item(K, "select-all", "edit-select-all-symbolic", "SelectAll") >>)
    \o << menu_item(K, "paste", "clipboard-symbolic", "Paste") >>
    \o Opt(tab.mode = "Desktop",
           << Divider,
              menu_item(K, "change-wallpaper", "image-symbolic", "CosmicSettingsWallpaper"),
              menu_item(K, "desktop-appearance", "brush-monitor-symbolic", "CosmicSettingsAppearance"),
              menu_item(K, "display-settings", "display-symbolic", "CosmicSettingsDisplays") >>)
    \o << Divider >>
    \o SortToggles(K, tab, "sort-by-modified", "Modified")
    \o Opt(tab.location = "Desktop",
           << Divider,
              menu_item(K, "desktop-view-options", "shell-overview-symbolic", "DesktopViewOptions") >>)

\* (Dialog(dialog_kind), Desktop | Path | Search | Recents)
DialogContextMenu(K, tab, scan) ==
    IF scan.selected > 0
    THEN Opt(OpenShown(scan),
             << menu_item(K, "open", "document-open-symbolic", "Open") >>)
         \o Opt(tab.location = "Search",
                << menu_item(K, "open-item-location", "symbolic-link-symbolic", "OpenItemLocation") >>)
         \o << Divider,
               menu_item(K, "show-details", "info-outline-symbolic", "Preview") >>
    ELSE LET pre ==
                 Opt(DialogKindSave(tab.mode),
                     << menu_item(K, "new-folder", "folder-new-symbolic", "NewFolder") >>)
                 \o Opt(ModeMultiple(tab.mode),
                        << menu_item(K, "select-all", "edit-select-all-symbolic", "SelectAll") >>)
         IN pre \o Opt(pre # <<>>, << Divider >>)
                \o SortToggles(K, tab, "sort-by-modified", "Modified")

\* (_, Network)
NetworkContextMenu(K, tab, scan) ==
    IF scan.selected > 0
    THEN Opt(OpenShown(scan),
             << menu_item(K, "open", "document-open-symbolic", "Open") >>)
    ELSE LET pre ==
                 Opt(ModeMultiple(tab.mode),
                     << menu_item(K, "select-all", "edit-select-all-symbolic", "SelectAll") >>)
         IN pre \o Opt(pre # <<>>, << Divider >>)
                \o SortToggles(K, tab, "sort-by-modified", "Modified")

TrashMenuLikeNetwork(K, tab, scan) == NetworkContextMenu(K, tab, scan)

\* (_, Trash)
TrashContextMenu(K, tab, scan) ==
    LET pre ==
            Opt(ModeMultiple(tab.mode),
                << menu_item(K, "select-all", "edit-select-all-symbolic", "SelectAll") >>)
    IN pre \o Opt(pre # <<>>, << Divider >>)
           \o (IF scan.selected > 0
               THEN << menu_item(K, "show-details", "info-outline-symbolic", "Preview"),
                       Divider,
                       menu_item(K, "restore-from-trash", "empty-trash-bin-symbolic", "RestoreFromTrash") >>
               ELSE SortToggles(K, tab, "sort-by-trashed", "TrashedOn"))

FileLocations == {"Desktop", "Path", "Search", "Recents"}

ContextBranchAnyTrash(tab, scan, entry) ==
    IF scan.selected_trash_only THEN "trash_only"
    ELSE IF entry.some THEN "desktop_entry"
    ELSE IF scan.selected > 0 THEN "selection"
    ELSE "no_selection"

\* Which branch of the App / Desktop arm builds the menu.
ContextBranch(tab, scan, entry) ==
    IF scan.selected_trash_only /\ scan.selected = 1 THEN "trash_only"
    ELSE IF entry.some THEN "desktop_entry"
    ELSE IF scan.selected > 0 THEN "selection"
    ELSE "no_selection"

TabScan(tab) == ContextScan(IF tab.items_loaded THEN tab.items ELSE <<>>, NoScan)

\* Whether the call reaches cosmic::desktop::load_desktop_file.
ParsesDesktopEntry(tab, feature) ==
    feature /\ TabScan(tab).selected_desktop_entry # "" /\ TabScan(tab).selected = 1

\* Whether the call reaches tab::trash_entries().
ReadsTrashEntries(tab) ==
    /\ tab.mode \in {"App", "Desktop"}
    /\ tab.location \in FileLocations
    /\ TabScan(tab).selected_trash_only
    /\ TabScan(tab).selected = 1

\* The children of context_menu, icons not yet resolved.
\*   K              the key-binding table in its iteration order
\*   trash_entries  what tab::trash_entries() returns
\*   loaded         what load_desktop_file returns
context_children(tab, K, feature, trash_entries, loaded) ==
    LET scan == TabScan(tab)
        entry == DesktopEntry(feature, scan, loaded)
        branch == ContextBranch(tab, scan, entry)
    IN CASE tab.mode \in {"App", "Desktop"} /\ tab.location \in FileLocations ->
                (CASE branch = "trash_only" -> TrashOnlyMenu(K, trash_entries)
                   [] branch = "desktop_entry" -> DesktopEntryMenu(K, feature, entry)
                   [] branch = "selection" -> SelectionMenu(K, tab, scan)
                   [] OTHER -> NoSelectionMenu(K, tab))
         [] IsDialog(tab.mode) /\ tab.location \in FileLocations ->
                DialogContextMenu(K, tab, scan)
         [] tab.location = "Network" -> NetworkContextMenu(K, tab, scan)
         [] tab.location = "Trash" -> TrashContextMenu(K, tab, scan)

-----------------------------------------------------------------------------
(* menu.rs: dialog_menu, menu_bar, location_context_menu *)

SetSort(sort, dir) ==
    CASE sort = "Name" /\ dir -> "SetSort(Name, true)"
      [] sort = "Name" /\ ~dir -> "SetSort(Name, false)"
      [] sort = "Modified" /\ dir -> "SetSort(Modified, true)"
      [] sort = "Modified" /\ ~dir -> "SetSort(Modified, false)"
      [] sort = "TrashedOn" /\ dir -> "SetSort(TrashedOn, true)"
      [] sort = "TrashedOn" /\ ~dir -> "SetSort(TrashedOn, false)"
      [] sort = "Size" /\ dir -> "SetSort(Size, true)"
      [] sort = "Size" /\ ~dir -> "SetSort(Size, false)"

SortItemAnyDirection(tab, label, sort, dir) ==
    Elem("CheckBox", label, "", "none",
         tab.some /\ tab.sort_name = sort, SetSort(sort, dir))

\* sort_item of dialog_menu and of menu_bar: checked when the tab is sorted
\* by (sort, dir); never with no tab.
bar_sort_item(tab, label, sort, dir) ==
    Elem("CheckBox", label, "", "none",
         tab.some /\ tab.sort_name = sort /\ tab.sort_direction = dir,
         SetSort(sort, dir))

\* The six entries of a sort tree.
SortTree(tab) ==
    LET in_trash == tab.some /\ tab.location = "Trash"
        date == IF in_trash THEN "TrashedOn" ELSE "Modified"
    IN << bar_sort_item(tab, "sort-a-z", "Name", TRUE),
          bar_sort_item(tab, "sort-z-a", "Name", FALSE),
          bar_sort_item(tab, "sort-newest-first", date, FALSE),
          bar_sort_item(tab, "sort-oldest-first", date, TRUE),
          bar_sort_item(tab, "sort-smallest-to-largest", "Size", TRUE),
          bar_sort_item(tab, "sort-largest-to-smallest", "Size", FALSE) >>

NoBarScan == [selected |-> 0, selected_dir |-> 0, selected_gallery |-> 0]

\* The loop over the tab's items of menu_bar (dialog_menu reads only
\* selected_gallery of it).
RECURSIVE BarScan(_, _)
BarScan(items, acc) ==
    IF items = <<>> THEN acc
    ELSE LET item == Head(items)
         IN IF ~item.selected THEN BarScan(Tail(items), acc)
            ELSE BarScan(Tail(items),
                   [selected |-> acc.selected + 1,
                    selected_dir |-> acc.selected_dir + (IF item.is_dir THEN 1 ELSE 0),
                    selected_gallery |->
                        acc.selected_gallery + (IF item.can_gallery THEN 1 ELSE 0)])

TabItems(tab) == IF tab.some /\ tab.items_loaded THEN tab.items ELSE <<>>

\* The root of a menu::Tree: an icon button loaded by name (dialog_menu) or
\* a text root (menu_bar).
IconRoot(icon) == Elem("Root", "", icon, "direct", FALSE, "")

TextRoot(label) == Elem("Root", label, "", "none", FALSE, "")

\* dialog_menu: three trees, each a root followed by its items.
dialog_elems(tab, show_details) ==
    LET scan == BarScan(TabItems(tab), NoBarScan)
    IN << IconRoot(IF tab.view = "Grid" THEN "view-grid-symbolic"
                   ELSE "view-list-symbolic"),
          Elem("CheckBox", "grid-view", "grid-symbolic", "cache",
               tab.view = "Grid", "TabViewGrid"),
          Elem("CheckBox", "list-view", "list-large-symbolic", "cache",
               tab.view = "List", "TabViewList"),
          IconRoot(IF tab.sort_direction THEN "view-sort-ascending-symbolic"
                   ELSE "view-sort-descending-symbolic") >>
       \o SortTree(tab)
       \o << IconRoot("view-more-symbolic"),
             Elem("Button", "zoom-in", "value-increase-symbolic", "cache", FALSE, "ZoomIn"),
             Elem("Button", "default-size", "loupe-symbolic", "cache", FALSE, "ZoomDefault"),
             Elem("Button", "zoom-out", "value-decrease-symbolic", "cache", FALSE, "ZoomOut"),
             Divider,
             Elem("CheckBox", "show-hidden-files", "view-conceal-symbolic", "cache",
                  tab.show_hidden, "ToggleShowHidden"),
             Elem("CheckBox", "list-directories-first", "folder-symbolic", "cache",
                  tab.folders_first, "ToggleFoldersFirst"),
             Elem("CheckBox", "show-details", "info-outline-symbolic", "cache",
                  show_details, "Preview"),
             Divider,
             menu_button_optional("gallery-preview", "image-round-symbolic", "Gallery",
                                  scan.selected_gallery > 0) >>

\* The enabled flag of menu_bar's Paste item.
PasteEnabled(scan) == scan.selected > 0

\* menu_bar: four trees, each a text root followed by its items.
bar_elems(tab, cfg) ==
    LET scan == BarScan(TabItems(tab), NoBarScan)
        selected == scan.selected
        selected_dir == scan.selected_dir
    IN << TextRoot("file"),
          Elem("Button", "new-tab", "tab-new-filled-symbolic", "cache", FALSE, "TabNew"),
          Elem("Button", "new-window", "edit-copy-symbolic", "cache", FALSE, "WindowNew"),
          Elem("Button", "new-folder", "folder-new-symbolic", "cache", FALSE, "NewFolder"),
          Elem("Button", "new-file", "paper-symbolic", "cache", FALSE, "NewFile"),
          menu_button_optional("open", "document-open-symbolic", "Open",
              (selected > 0 /\ selected_dir = 0) \/ (selected_dir = 1 /\ selected = 1)),
          menu_button_optional("open-with", "external-link-symbolic", "OpenWith",
              selected = 1),
          Divider,
          menu_button_optional("rename", "edit-symbolic", "Rename", selected > 0),
          Divider,
          menu_button_optional("add-to-sidebar", "dock-left-symbolic", "AddToSidebar",
              selected > 0),
          Divider,
          menu_button_optional("move-to-trash", "user-trash-symbolic", "MoveToTrash",
              selected > 0),
          Divider,
          Elem("Button", "close-tab", "cross-small-square-filled-symbolic", "cache", FALSE, "TabClose"),
          Elem("Button", "quit", "arrow-into-box-symbolic", "cache", FALSE, "WindowClose"),
          TextRoot("edit"),
          menu_button_optional("cut", "cut-symbolic", "Cut", selected > 0),
          menu_button_optional("copy", "copy-symbolic", "Copy", selected > 0),
          menu_button_optional("paste", "clipboard-symbolic", "Paste", PasteEnabled(scan)),
          Elem("Button", "select-all", "edit-select-all-symbolic", "cache", FALSE, "SelectAll"),
          Divider,
          Elem("Button", "history", "history-undo-symbolic", "cache", FALSE, "EditHistory"),
          TextRoot("view"),
          Elem("Button", "zoom-in", "value-increase-symbolic", "cache", FALSE, "ZoomIn"),
          Elem("Button", "default-size", "loupe-symbolic", "cache", FALSE, "ZoomDefault"),
          Elem("Button", "zoom-out", "value-decrease-symbolic", "cache", FALSE, "ZoomOut"),
          Divider,
          Elem("CheckBox", "grid-view", "grid-symbolic", "cache",
               tab.some /\ tab.view = "Grid", "TabViewGrid"),
          Elem("CheckBox", "list-view", "list-large-symbolic", "cache",
               tab.some /\ tab.view = "List", "TabViewList"),
          Divider,
          Elem("CheckBox", "show-hidden-files", "view-conceal-symbolic", "cache",
               tab.some /\ tab.show_hidden, "ToggleShowHidden"),
          Elem("CheckBox", "list-directories-first", "folder-symbolic", "cache",
               tab.some /\ tab.folders_first, "ToggleFoldersFirst"),
          Elem("CheckBox", "show-details", "info-outline-symbolic", "cache",
               cfg.show_details, "Preview"),
          Divider,
          menu_button_optional("gallery-preview", "image-round-symbolic", "Gallery",
              scan.selected_gallery > 0),
          Divider,
          Elem("Button", "menu-settings", "settings-symbolic", "cache", FALSE, "Settings"),
          Divider,
          Elem("Button", "menu-about", "info-outline-symbolic", "cache", FALSE, "About"),
          TextRoot("sort") >>
       \o SortTree(tab)

\* location_context_menu: the LocationMenuAction of every entry carries
\* ancestor_index, which the caller of this operator keeps beside the menu.
location_elems ==
    << Elem("Button", "open-in-new-tab", "", "none", FALSE, "LocationMenuAction::OpenInNewTab"),
       Elem("Button", "open-in-new-window", "", "none", FALSE, "LocationMenuAction::OpenInNewWindow"),
       Divider,
       Elem("Button", "show-details", "", "none", FALSE, "LocationMenuAction::Preview"),
       Divider,
       Elem("Button", "add-to-sidebar", "", "none", FALSE, "LocationMenuAction::AddToSidebar") >>

-----------------------------------------------------------------------------
(* Icons of a built menu *)

\* widget::icon::from_name(name): a named handle made without the cache.
DirectHandle(name) == [kind |-> "named", name |-> name, size |-> 0, gen |-> 0]

\* The global icons::get_handle(name, size): lock the mutex, run
\* IconCache::get_handle, drop the guard. c is the cache, n the lookup counts.
GetHandle(c, n, name, size) ==
    LET k == IconCacheKey(name, size)
        r == OrInsertWith(c, k, EntryVacant(c, k), n[k])
    IN [cache |-> r.cache,
        lookups |-> IF r.looked THEN [n EXCEPT ![k] = @ + 1] ELSE n,
        handle |-> Returned("get_handle", r.handle, size)]

\* One element's icon load. st holds the cache, the lookup counts and the
\* elements resolved so far.
LoadIcon(st, e) ==
    CASE e.via = "cache" ->
            LET r == GetHandle(st.cache, st.lookups, e.icon, BundledSize)
            IN [cache |-> r.cache, lookups |-> r.lookups,
                elems |-> Append(st.elems, [e EXCEPT !.icon = r.handle])]
      [] e.via = "direct" ->
            [st EXCEPT !.elems = Append(@, [e EXCEPT !.icon = DirectHandle(e.icon)])]
      [] OTHER ->
            [st EXCEPT !.elems = Append(@, [e EXCEPT !.icon = NoHandle])]

\* The icon loads of a builder in evaluation order, from element i on: every
\* element's icon name is replaced by the handle the code obtains for it.
\* (The singleton sets make each intermediate state a value before the next
\* load reads it.)
RECURSIVE ResolveFrom(_, _, _)
ResolveFrom(st, elems, i) ==
    IF i > Len(elems) THEN st
    ELSE CHOOSE out \in {ResolveFrom(next, elems, i + 1) :
                            next \in {LoadIcon(st, elems[i])}} : TRUE

ResolveIcons(c, n, elems) ==
    ResolveFrom([cache |-> c, lookups |-> n, elems |-> <<>>], elems, 1)

\* `trash` is what tab::trash_entries() returned to the call (0 when the call
\* does not read it).
NoMenu == [fn |-> "none", arg |-> 0, trash |-> 0, tree |-> <<>>]

-----------------------------------------------------------------------------
(* Spec: threads calling the global get_icon / get_handle (icons.rs 95-103) *)

Init ==
    /\ cache = IconCache_new
    /\ themeLookups = [k \in AllKeys |-> 0]
    /\ mutex = NoThread
    /\ pc = [t \in Threads |-> "idle"]
    /\ call = [t \in Threads |-> NoCall]
    /\ feature_desktop = TRUE
    /\ tab_opt = NoTab
    /\ config = [show_details |-> FALSE]
    /\ key_binds = {}
    /\ last = NoMenu

\* A thread enters get_icon(name, size) or get_handle(name, size).
Call(t) ==
    /\ pc[t] \in {"idle", "done"}
    /\ \E op \in Ops, k \in LookupKeys :
          call' = [call EXCEPT ![t] = [NoCall EXCEPT !.op = op, !.key = k]]
    /\ pc' = [pc EXCEPT ![t] = "lock"]
    /\ UNCHANGED <<cache, themeLookups, mutex>>

\* ICON_CACHE.get().unwrap().lock().unwrap()
Lock(t) ==
    /\ pc[t] = "lock"
    /\ MutexFree
    /\ mutex' = t
    /\ pc' = [pc EXCEPT ![t] = "entry"]
    /\ UNCHANGED <<cache, themeLookups, call>>

\* self.cache.entry(IconCacheKey { name, size })
Entry(t) ==
    /\ pc[t] = "entry"
    /\ call' = [call EXCEPT ![t].vacant = EntryVacant(cache, call[t].key)]
    /\ pc' = [pc EXCEPT ![t] = "or_insert"]
    /\ UNCHANGED <<cache, themeLookups, mutex>>

\* .or_insert_with(|| icon::from_name(name).size(size).handle()).clone()
OrInsert(t) ==
    /\ pc[t] = "or_insert"
    /\ LET k == call[t].key
           r == OrInsertWith(cache, k, call[t].vacant, themeLookups[k])
       IN /\ cache' = r.cache
          /\ themeLookups' =
                IF r.looked THEN [themeLookups EXCEPT ![k] = @ + 1]
                ELSE themeLookups
          /\ call' = [call EXCEPT ![t].handle = r.handle,
                                  ![t].looked = IF r.looked THEN 1 ELSE 0]
    /\ pc' = [pc EXCEPT ![t] = "return"]
    /\ UNCHANGED mutex

ReturnKeepsGuard(t) ==
    /\ pc[t] = "return"
    /\ call' = [call EXCEPT ![t].ret =
                   Returned(call[t].op, call[t].handle, call[t].key[2])]
    /\ pc' = [pc EXCEPT ![t] = "done"]
    /\ UNCHANGED <<cache, themeLookups, mutex>>

\* The method returns; the MutexGuard is dropped at the end of the function.
Return(t) ==
    /\ pc[t] = "return"
    /\ call' = [call EXCEPT ![t].ret =
                   Returned(call[t].op, call[t].handle, call[t].key[2])]
    /\ mutex' = NoThread
    /\ pc' = [pc EXCEPT ![t] = "done"]
    /\ UNCHANGED <<cache, themeLookups>>

Step(t) ==
    \/ Call(t)
    \/ Lock(t)
    \/ Entry(t)
    \/ OrInsert(t)
    \/ Return(t)

Next == (\E t \in Threads : Step(t)) /\ UNCHANGED menuVars

vars == <<cache, themeLookups, mutex, pc, call,
          feature_desktop, tab_opt, config, key_binds, last>>

Spec == Init /\ [][Next]_vars

\* A thread that is inside a call takes its next step: a thread that can run
\* is scheduled, and a thread blocked in lock() is woken once the mutex stays
\* free. Nothing makes a thread start a call.
Progress(t) ==
    /\ Lock(t) \/ Entry(t) \/ OrInsert(t) \/ Return(t)
    /\ UNCHANGED menuVars

FairSpec == Spec /\ \A t \in Threads : WF_vars(Progress(t))

-----------------------------------------------------------------------------
(* MenuSpec: the UI thread building menus (menu.rs) *)

MenuInit ==
    /\ cache = IconCache_new
    /\ themeLookups = [k \in AllKeys |-> 0]
    /\ mutex = NoThread
    /\ pc = [t \in Threads |-> "idle"]
    /\ call = [t \in Threads |-> NoCall]
    /\ last = NoMenu
    /\ \E inp \in MenuInputs :
          /\ tab_opt = inp.tab
          /\ config = [show_details |-> inp.show_details]
          /\ key_binds = inp.key_binds
          /\ feature_desktop = inp.feature_desktop

\* A builder has produced `elems`: its icon loads happen, the menu is kept.
Built(fn, arg, trash, elems) ==
    \E es \in {elems} :
    \E r \in {ResolveIcons(cache, themeLookups, es)} :
       /\ cache' = r.cache
       /\ themeLookups' = r.lookups
       /\ last' = [fn |-> fn, arg |-> arg, trash |-> trash, tree |-> r.elems]
       /\ UNCHANGED <<mutex, pc, call, feature_desktop, tab_opt, config, key_binds>>

\* context_menu(tab, key_binds). The call reads three things that are not
\* arguments: the table's iteration order, tab::trash_entries() (in the
\* trash-only branch) and the desktop file on disk (when it is parsed).
ContextMenu ==
    /\ tab_opt.some
    /\ MutexFree
    /\ \E K \in IterOrders(key_binds) :
       \E trash_entries \in
             IF ReadsTrashEntries(tab_opt) THEN 0..MaxTrash ELSE {0} :
       \E loaded \in
             IF ParsesDesktopEntry(tab_opt, feature_desktop) THEN DesktopLoads
             ELSE {NoEntry} :
          Built("context_menu", 0, trash_entries,
                context_children(tab_opt, K, feature_desktop, trash_entries, loaded))

\* dialog_menu(tab, key_binds, show_details)
DialogMenu ==
    /\ tab_opt.some
    /\ MutexFree
    /\ Built("dialog_menu", 0, 0, dialog_elems(tab_opt, config.show_details))

\* menu_bar(tab_opt, config, key_binds)
MenuBar ==
    /\ MutexFree
    /\ Built("menu_bar", 0, 0, bar_elems(tab_opt, config))

\* location_context_menu(ancestor_index)
LocationContextMenu ==
    \E ancestor_index \in 0..MaxAncestor :
        Built("location_context_menu", ancestor_index, 0, location_elems)

MenuNext ==
    \/ ContextMenu
    \/ DialogMenu
    \/ MenuBar
    \/ LocationContextMenu

MenuSpec == MenuInit /\ [][MenuNext]_vars

-----------------------------------------------------------------------------
(* Claims about the icon cache, checked under Spec *)

InCall(t) == pc[t] \in {"return", "done"}

\* C1: memoization. The theme lookup closure runs at most once per
\* (name, size) key over any sequence of get_handle / get_icon calls, and a
\* call that finds its key in the cache returns the stored handle without
\* running the closure.
C1_Memoization ==
    /\ \A k \in AllKeys : themeLookups[k] <= 1
    /\ \A t \in Threads :
          InCall(t) /\ ~call[t].vacant =>
              /\ call[t].looked = 0
              /\ call[t].handle = cache[call[t].key]

\* A call has returned a handle that an earlier call's theme lookup stored.
C1_Witness ==
    \E t \in Threads :
        /\ pc[t] = "done"
        /\ ~call[t].vacant
        /\ themeLookups[call[t].key] = 1

\* C2: no eviction. Every step keeps every key of the cache with the handle
\* it had; the key set grows by exactly one key when or_insert_with acts on
\* a key that is absent, and by zero in every other step.
C2_NoEviction ==
    [][ /\ \A k \in DOMAIN cache : k \in DOMAIN cache' /\ cache'[k] = cache[k]
        /\ Cardinality(DOMAIN cache') - Cardinality(DOMAIN cache) =
              IF \E t \in Threads :
                    /\ pc[t] = "or_insert"
                    /\ pc'[t] = "return"
                    /\ call[t].key \notin DOMAIN cache
              THEN 1 ELSE 0 ]_vars

\* A lookup of a present key has returned after the cache had grown.
C2_Witness ==
    \E t \in Threads :
        /\ pc[t] = "done"
        /\ ~call[t].vacant
        /\ Cardinality(DOMAIN cache) > Cardinality(BundledKeys)

\* C3: fixed preload list. IconCache::new makes 35 insertions giving 34
\* distinct keys ("arrow-into-box-symbolic" twice), all at size 14 and
\* nothing else; as long as no theme lookup has happened the cache is exactly
\* that; a bundled key always maps to its bundled SVG handle, and a lookup
\* of a bundled key returns it without a theme lookup.
C3_FixedPreload ==
    /\ Len(BundledIcons) = 35
    /\ Cardinality(DOMAIN IconCache_new) = 34
    /\ BundledIcons[10] = "arrow-into-box-symbolic"
    /\ BundledIcons[26] = "arrow-into-box-symbolic"
    /\ DOMAIN IconCache_new = {IconCacheKey(n, 14) : n \in BundledNames}
    /\ (\A k \in AllKeys : themeLookups[k] = 0) => cache = IconCache_new
    /\ \A k \in BundledKeys :
          /\ k \in DOMAIN cache
          /\ cache[k] = SvgHandle(k[1])
          /\ themeLookups[k] = 0
    /\ \A t \in Threads :
          InCall(t) /\ call[t].key \in BundledKeys =>
              /\ call[t].handle = SvgHandle(call[t].key[1])
              /\ call[t].looked = 0

\* A lookup of a bundled key has returned.
C3_Witness ==
    \E t \in Threads : pc[t] = "done" /\ call[t].key \in BundledKeys

\* C4: fallback. A lookup of a key that is not in the cache runs the theme
\* lookup for that name at the requested size, stores the handle under
\* (name, size) and returns it; it always returns something.
C4_Fallback ==
    \A t \in Threads :
        InCall(t) /\ call[t].vacant =>
            /\ call[t].looked = 1
            /\ call[t].handle.kind = "named"
            /\ call[t].handle.name = call[t].key[1]
            /\ call[t].handle.size = call[t].key[2]
            /\ call[t].key \in DOMAIN cache
            /\ cache[call[t].key] = call[t].handle
            /\ pc[t] = "done" =>
                  /\ call[t].ret.kind # "none"
                  /\ call[t].ret.name = call[t].key[1]
                  /\ call[t].ret.size = call[t].key[2]

\* A lookup of an absent key has returned.
C4_Witness ==
    \E t \in Threads : pc[t] = "done" /\ call[t].vacant

\* C5: single-lock atomicity. At most one thread is between lock() and the
\* drop of the guard, and it owns the mutex; under every interleaving a key
\* that was absent gets exactly one theme lookup and one insertion, and all
\* callers of a key received the same handle.
C5_SingleLock ==
    /\ \A t1, t2 \in Threads :
          /\ pc[t1] \in {"entry", "or_insert", "return"}
          /\ pc[t2] \in {"entry", "or_insert", "return"}
          => t1 = t2 /\ mutex = t1
    /\ \A k \in AllKeys \ BundledKeys :
          /\ themeLookups[k] <= 1
          /\ (k \in DOMAIN cache) = (themeLookups[k] = 1)
    /\ \A t1, t2 \in Threads :
          InCall(t1) /\ InCall(t2) /\ call[t1].key = call[t2].key
          => call[t1].handle = call[t2].handle

\* Two lookups of the same absent key overlap: one has run the theme lookup
\* and still holds the mutex, the other waits in lock().
C5_Witness ==
    \E t1, t2 \in Threads :
        /\ t1 # t2
        /\ pc[t1] = "return"
        /\ call[t1].vacant
        /\ pc[t2] = "lock"
        /\ call[t2].key = call[t1].key

\* C22: the cache key is the pair (name, size). A lookup of a bundled name
\* at a size other than 14 does not get the bundled handle: the handle is the
\* one a theme lookup made for that name at that size, stored under its own
\* key. Lookups of one name at two sizes leave two entries with different
\* handles, and entries of one name at different sizes never share a handle.
C22_KeyIsPair ==
    /\ \A t \in Threads :
          /\ InCall(t)
          /\ call[t].key[1] \in BundledNames
          /\ call[t].key[2] # BundledSize
          => /\ call[t].handle # SvgHandle(call[t].key[1])
             /\ call[t].handle.kind = "named"
             /\ call[t].handle.size = call[t].key[2]
             /\ themeLookups[call[t].key] = 1
             /\ call[t].key \in DOMAIN cache
             /\ cache[call[t].key] = call[t].handle
             /\ cache[IconCacheKey(call[t].key[1], BundledSize)]
                   = SvgHandle(call[t].key[1])
    /\ \A t1, t2 \in Threads :
          /\ InCall(t1) /\ InCall(t2)
          /\ call[t1].key[1] = call[t2].key[1]
          /\ call[t1].key[2] # call[t2].key[2]
          => /\ {call[t1].key, call[t2].key} \subseteq DOMAIN cache
             /\ call[t1].handle # call[t2].handle
    /\ \A k1, k2 \in DOMAIN cache :
          k1 # k2 /\ k1[1] = k2[1] => cache[k1] # cache[k2]

C22_Witness ==
    \E t1, t2 \in Threads :
        /\ pc[t1] = "done" /\ pc[t2] = "done"
        /\ call[t1].key[1] \in BundledNames
        /\ call[t1].key[1] = call[t2].key[1]
        /\ call[t1].key[2] = BundledSize
        /\ call[t2].key[2] # BundledSize
        /\ call[t2].looked = 1

\* No thread starts a call in this step.
NoNewCall == \A t \in Threads : pc'[t] = "lock" => pc[t] = "lock"

\* C23: deadlock freedom of the icon cache. The thread that owns the mutex
\* is inside IconCache::get_icon / get_handle and is not waiting for the
\* mutex; the mutex is free when no thread is inside; and when only finitely
\* many calls are made, every call that has started returns.
C23_DeadlockFree ==
    /\ [](\A t \in Threads :
             /\ mutex = t <=> pc[t] \in {"entry", "or_insert", "return"}
             /\ pc[t] = "lock" => mutex # t)
    /\ []((\A t \in Threads : pc[t] \in {"idle", "done"}) => MutexFree)
    /\ (<>[][NoNewCall]_vars) =>
          \A t \in Threads : (pc[t] = "lock") ~> (pc[t] = "done")

C23_Witness ==
    \E t1, t2 \in Threads :
        /\ t1 # t2
        /\ pc[t1] = "done" /\ pc[t2] = "done"
        /\ call[t1].key = call[t2].key
        /\ call[t1].looked = 1
        /\ call[t2].looked = 0
        /\ call[t2].ret.name = call[t1].key[1]
        /\ MutexFree

-----------------------------------------------------------------------------
(* Claims about the menu builders, checked under MenuSpec *)

\* Whether a built menu has an entry with this Action.
Offers(tree, action) ==
    \E i \in DOMAIN tree : tree[i].type # "Divider" /\ tree[i].action = action

\* The entry of a built menu with this Action.
ItemOf(tree, action) ==
    tree[CHOOSE i \in DOMAIN tree : tree[i].action = action]

\* The selected items of the tab, read off the tab itself.
SelectedItems(tab) ==
    IF tab.some /\ tab.items_loaded
    THEN {i \in DOMAIN tab.items : tab.items[i].selected}
    ELSE {}

InFileBranch(tab) ==
    tab.some /\ tab.mode \in {"App", "Desktop"} /\ tab.location \in FileLocations

\* C6: determinism of the menu builders. Two consecutive calls of the same
\* builder, between which the tab, the config and the key-binding table are
\* the same, return the same menu, key-binding texts and Empty trash entry
\* included.
C6_Deterministic ==
    [][ /\ last.fn # "none"
        /\ last'.fn = last.fn
        /\ last'.arg = last.arg
        /\ UNCHANGED <<tab_opt, config, key_binds, feature_desktop>>
        => last'.tree = last.tree ]_vars

\* C7: the menu builders are pure. No builder call changes the tab, the
\* config, the key-binding table or the contents of the icon cache.
C7_Pure ==
    [][ /\ cache' = cache
        /\ UNCHANGED <<tab_opt, config, key_binds>> ]_vars

\* C8: every icon of a menu built by context_menu, dialog_menu or menu_bar
\* is the handle the icon cache holds for its name at size 14.
C8_IconsFromCache ==
    last.fn \in {"context_menu", "dialog_menu", "menu_bar"} =>
        \A i \in DOMAIN last.tree :
            last.tree[i].icon # NoHandle =>
                /\ IconCacheKey(last.tree[i].icon.name, 14) \in DOMAIN cache
                /\ cache[IconCacheKey(last.tree[i].icon.name, 14)] = last.tree[i].icon

\* The Actions of a built menu in order, the desktop file's own actions left
\* out.
OwnActions(tree) ==
    LET keep(e) == e.action # "ExecEntryAction"
        kept == SelectSeq(tree, keep)
    IN [i \in DOMAIN kept |-> kept[i].action]

\* Open, (the entry's actions), divider, Rename, Cut, Copy, Move to trash
IsDesktopEntryMenu(tree) ==
    OwnActions(tree) = <<"Open", "", "Rename", "Cut", "Copy", "MoveToTrash">>

\* The general selection menu is the one that offers Compress.
IsSelectionMenu(tree) == Offers(tree, "Compress")

\* C9: in the App / Desktop arm at a Desktop, Path, Search or Recents
\* location, the desktop-entry menu is built only when exactly one item is
\* selected and it is a path with extension "desktop"; with two or more
\* items selected the general selection menu is built.
C9_DesktopEntryOnlySelection ==
    last.fn = "context_menu" /\ InFileBranch(tab_opt) =>
        /\ IsDesktopEntryMenu(last.tree) =>
              /\ Cardinality(SelectedItems(tab_opt)) = 1
              /\ \A i \in SelectedItems(tab_opt) :
                    /\ tab_opt.items[i].location = "Path"
                    /\ tab_opt.items[i].ext = "desktop"
        /\ Cardinality(SelectedItems(tab_opt)) >= 2 => IsSelectionMenu(last.tree)

\* C10: for a tab in App mode at a Desktop, Path, Search or Recents
\* location, when context_menu offers Paste the Paste item of menu_bar for
\* the same tab is enabled.
C10_PasteConsistent ==
    /\ last.fn = "context_menu"
    /\ tab_opt.some
    /\ tab_opt.mode = "App"
    /\ tab_opt.location \in FileLocations
    /\ Offers(last.tree, "Paste")
    => ItemOf(bar_elems(tab_opt, config), "Paste").type = "Button"

\* The selected items of the tab that are directories.
SelectedDirs(tab) ==
    {i \in SelectedItems(tab) : tab.items[i].is_dir}

\* C11: for a tab with at least one selected item at a location other than
\* Trash, context_menu offers Open exactly when the Open item of menu_bar for
\* the same tab is enabled, and exactly when the selection holds no directory
\* or is one single directory.
C11_OpenConsistent ==
    /\ last.fn = "context_menu"
    /\ tab_opt.some
    /\ tab_opt.location # "Trash"
    /\ Cardinality(SelectedItems(tab_opt)) >= 1
    => /\ Offers(last.tree, "Open")
            <=> ItemOf(bar_elems(tab_opt, config), "Open").type = "Button"
       /\ Offers(last.tree, "Open")
            <=> \/ SelectedDirs(tab_opt) = {}
                \/ /\ Cardinality(SelectedItems(tab_opt)) = 1
                   /\ Cardinality(SelectedDirs(tab_opt)) = 1

\* C12: the children built by context_menu hold at least one entry that is
\* not a divider, whatever the mode, the location and the selection.
C12_NeverEmpty ==
    last.fn = "context_menu" =>
        \E i \in DOMAIN last.tree : last.tree[i].type # "Divider"

\* C13: the first child built by context_menu is not a divider.
C13_NoLeadingDivider ==
    last.fn = "context_menu" /\ last.tree # <<>> =>
        last.tree[1].type # "Divider"

\* The trash shortcut menu: Open, then possibly Empty trash, nothing else.
IsTrashShortcutMenu(tree) ==
    OwnActions(tree) \in { <<"Open">>, <<"Open", "EmptyTrash">> }

\* The last menu is the general selection menu: built by context_menu in the
\* App / Desktop arm for a tab with a selection, and neither the trash
\* shortcut menu nor the desktop-entry menu.
GeneralSelectionBuilt ==
    /\ last.fn = "context_menu"
    /\ InFileBranch(tab_opt)
    /\ SelectedItems(tab_opt) # {}
    /\ ~IsTrashShortcutMenu(last.tree)
    /\ ~IsDesktopEntryMenu(last.tree)

\* The MIME types of the selected items.
SelectedMimes(tab) == {tab.items[i].mime : i \in SelectedItems(tab)}

\* C14: in the general selection menu Extract here is offered exactly when
\* the MIME type of every selected item is a supported archive type, and
\* Compress is offered for every selection.
C14_ExtractCompress ==
    GeneralSelectionBuilt =>
        /\ Offers(last.tree, "ExtractHere")
              <=> SelectedMimes(tab_opt) \subseteq SupportedArchiveTypes
        /\ Offers(last.tree, "Compress")

C14_Witness ==
    /\ GeneralSelectionBuilt
    /\ Cardinality(SelectedMimes(tab_opt)) = 2
    /\ "application/zip" \in SelectedMimes(tab_opt)
    /\ ~Offers(last.tree, "ExtractHere")

\* Exactly one item is selected and its location is Trash.
OneTrashSelected(tab) ==
    /\ Cardinality(SelectedItems(tab)) = 1
    /\ \A i \in SelectedItems(tab) : tab.items[i].location = "Trash"

\* C15: in the App / Desktop arm at a Desktop, Path, Search or Recents
\* location the trash shortcut menu is built exactly when one item is
\* selected and its location is Trash; it is Open, followed by Empty trash
\* exactly when tab::trash_entries() is positive, and has no Rename, Cut,
\* Copy or Move to trash.
C15_TrashShortcut ==
    last.fn = "context_menu" /\ InFileBranch(tab_opt) =>
        /\ IsTrashShortcutMenu(last.tree) <=> OneTrashSelected(tab_opt)
        /\ OneTrashSelected(tab_opt) =>
              /\ OwnActions(last.tree) =
                    (IF last.trash > 0 THEN <<"Open", "EmptyTrash">> ELSE <<"Open">>)
              /\ \A a \in {"Rename", "Cut", "Copy", "MoveToTrash"} :
                    ~Offers(last.tree, a)

C15_Witness ==
    /\ last.fn = "context_menu"
    /\ InFileBranch(tab_opt)
    /\ OneTrashSelected(tab_opt)
    /\ Len(tab_opt.items) = 2
    /\ last.trash > 0
    /\ Offers(last.tree, "EmptyTrash")

\* The Actions that modify existing files.
ModifyingActions ==
    {"Rename", "Cut", "Copy", "Paste", "MoveToTrash", "RestoreFromTrash",
     "EmptyTrash", "Compress", "ExtractHere", "NewFile"}

\* C16: in Dialog mode context_menu offers no entry that modifies existing
\* files, at any location and for any selection, and offers New folder only
\* in a save dialog with nothing selected.
C16_DialogReadOnly ==
    last.fn = "context_menu" /\ tab_opt.some /\ IsDialog(tab_opt.mode) =>
        /\ \A a \in ModifyingActions : ~Offers(last.tree, a)
        /\ Offers(last.tree, "NewFolder") =>
              tab_opt.mode = "DialogSave" /\ SelectedItems(tab_opt) = {}

\* C17: context_menu offers Restore from trash exactly when the tab is at
\* Trash with a selection; at Trash it never offers Open, Rename, Cut, Copy,
\* Paste, Move to trash, New folder or New file, and with nothing selected it
\* offers the sort toggles by name, by trashed-on date and by size, not by
\* modified date.
C17_TrashLocation ==
    last.fn = "context_menu" /\ tab_opt.some =>
        /\ Offers(last.tree, "RestoreFromTrash")
              <=> (tab_opt.location = "Trash" /\ SelectedItems(tab_opt) # {})
        /\ tab_opt.location = "Trash" =>
              /\ \A a \in {"Open", "Rename", "Cut", "Copy", "Paste",
                           "MoveToTrash", "NewFolder", "NewFile"} :
                    ~Offers(last.tree, a)
              /\ SelectedItems(tab_opt) = {} =>
                    /\ Offers(last.tree, "ToggleSort(Name)")
                    /\ Offers(last.tree, "ToggleSort(TrashedOn)")
                    /\ Offers(last.tree, "ToggleSort(Size)")
                    /\ ~Offers(last.tree, "ToggleSort(Modified)")

C17_Witness ==
    /\ last.fn = "context_menu"
    /\ tab_opt.some
    /\ tab_opt.location = "Trash"
    /\ Cardinality(SelectedItems(tab_opt)) = 2
    /\ Offers(last.tree, "RestoreFromTrash")

\* C18: in the general selection menu Open in new tab and Open in new window
\* are offered exactly when every selected item is a directory and the mode
\* is App, Open with exactly when one item is selected, and Open in terminal
\* exactly when that single selected item is a directory.
C18_OpenVariants ==
    GeneralSelectionBuilt =>
        LET sel == SelectedItems(tab_opt)
            dirs == SelectedDirs(tab_opt)
        IN /\ \A a \in {"OpenInNewTab", "OpenInNewWindow"} :
                 Offers(last.tree, a) <=> (sel = dirs /\ tab_opt.mode = "App")
           /\ Offers(last.tree, "OpenWith") <=> Cardinality(sel) = 1
           /\ Offers(last.tree, "OpenTerminal")
                 <=> (Cardinality(sel) = 1 /\ sel = dirs)

C18_Witness ==
    /\ GeneralSelectionBuilt
    /\ tab_opt.mode = "App"
    /\ Cardinality(SelectedItems(tab_opt)) = 2
    /\ Cardinality(SelectedDirs(tab_opt)) = 1
    /\ ~Offers(last.tree, "OpenInNewTab")

\* The sort checkboxes of a built menu.
SortBoxes(tree) ==
    {i \in DOMAIN tree :
        tree[i].type = "CheckBox"
        /\ \E h \in Headings, d \in BOOLEAN : tree[i].action = SetSort(h, d)}

\* C19: in the sort menu of menu_bar and of dialog_menu there are six sort
\* checkboxes, at most one is checked, and the one for (heading, direction)
\* is checked exactly when the tab is sorted that way; the date entries are
\* the trashed-on ones exactly when the tab is at Trash, so a tab at Trash
\* sorted by modified date has no checkbox checked.
C19_SortChecks ==
    last.fn \in {"menu_bar", "dialog_menu"} =>
        LET boxes == SortBoxes(last.tree)
            in_trash == tab_opt.some /\ tab_opt.location = "Trash"
        IN /\ Cardinality(boxes) = 6
           /\ Cardinality({i \in boxes : last.tree[i].checked}) <= 1
           /\ \A i \in boxes : \A h \in Headings, d \in BOOLEAN :
                 last.tree[i].action = SetSort(h, d) =>
                    /\ last.tree[i].checked
                          <=> /\ tab_opt.some
                              /\ tab_opt.sort_name = h
                              /\ tab_opt.sort_direction = d
                    /\ h = "TrashedOn" => in_trash
                    /\ h = "Modified" => ~in_trash
           /\ \A d \in BOOLEAN :
                 \E i \in boxes :
                    last.tree[i].action =
                        SetSort(IF in_trash THEN "TrashedOn" ELSE "Modified", d)

C19_Witness ==
    /\ last.fn \in {"menu_bar", "dialog_menu"}
    /\ tab_opt.some
    /\ tab_opt.location = "Trash"
    /\ tab_opt.sort_name = "Modified"
    /\ \A i \in SortBoxes(last.tree) : ~last.tree[i].checked

\* The labels of a built menu, in order.
Labels(tree) == [i \in DOMAIN tree |-> tree[i].label]

\* C20: menu_bar called with no tab returns the whole menu bar (the entries
\* it has with a tab); its selection-dependent items are disabled, the
\* checkboxes that read tab state are unchecked, and Show details is checked
\* exactly when config.show_details is set.
C20_NoTab ==
    last.fn = "menu_bar" /\ ~tab_opt.some =>
        /\ \A t \in ViewTabs :
              Labels(last.tree) = Labels(bar_elems(t, config))
        /\ \A a \in {"Open", "OpenWith", "Rename", "AddToSidebar",
                     "MoveToTrash", "Cut", "Copy", "Paste", "Gallery"} :
              \E i \in DOMAIN last.tree :
                 last.tree[i].action = a /\ last.tree[i].type = "ButtonDisabled"
        /\ \A i \in DOMAIN last.tree :
              /\ last.tree[i].type = "CheckBox" /\ last.tree[i].action # "Preview"
                    => ~last.tree[i].checked
              /\ last.tree[i].type = "CheckBox" /\ last.tree[i].action = "Preview"
                    => last.tree[i].checked = config.show_details
        /\ \A a \in {"TabViewGrid", "TabViewList", "ToggleShowHidden",
                     "ToggleFoldersFirst", "Preview"} :
              \E i \in DOMAIN last.tree :
                 last.tree[i].action = a /\ last.tree[i].type = "CheckBox"
        /\ Cardinality(SortBoxes(last.tree)) = 6

C20_Witness ==
    /\ last.fn = "menu_bar"
    /\ ~tab_opt.some
    /\ config.show_details
    /\ \E i \in DOMAIN last.tree :
          last.tree[i].action = "Preview" /\ last.tree[i].checked

\* An Action with the heading of a date sort entry taken out.
WithoutDateHeading(action) ==
    IF \E d \in BOOLEAN : action \in {SetSort("Modified", d), SetSort("TrashedOn", d)}
    THEN (IF action \in {SetSort("Modified", TRUE), SetSort("TrashedOn", TRUE)}
          THEN "SetSort(date, true)" ELSE "SetSort(date, false)")
    ELSE action

\* What of a menu-bar element does not depend on state: its kind (a button
\* is a button, enabled or not), label, icon and Action.
Shape(e, icon_name) ==
    [kind |-> IF e.type = "ButtonDisabled" THEN "Button" ELSE e.type,
     label |-> e.label,
     icon |-> icon_name,
     action |-> WithoutDateHeading(e.action)]

\* C21: the menu bar has the same structure for every tab (or none), config
\* and key-binding table: the same roots, items, dividers, labels, icons and
\* Actions in the same order as the bar built with no tab; only the enabled
\* flag of buttons, the checked flag of checkboxes and the heading of the two
\* date sort entries vary.
C21_BarStructure ==
    last.fn = "menu_bar" =>
        LET ref == bar_elems(NoTab, [show_details |-> FALSE])
        IN /\ Len(last.tree) = Len(ref)
           /\ \A i \in DOMAIN ref :
                 /\ Shape(last.tree[i], last.tree[i].icon.name) = Shape(ref[i], ref[i].icon)
                 /\ ref[i].icon # "" =>
                       last.tree[i].icon = IconCache_new[IconCacheKey(ref[i].icon, BundledSize)]
           /\ \E i \in DOMAIN ref : last.tree[i].label = "file" /\ last.tree[i].type = "Root"
           /\ \E i \in DOMAIN ref : last.tree[i].label = "edit" /\ last.tree[i].type = "Root"
           /\ \E i \in DOMAIN ref : last.tree[i].label = "view" /\ last.tree[i].type = "Root"
           /\ \E i \in DOMAIN ref : last.tree[i].label = "sort" /\ last.tree[i].type = "Root"

C21_Witness ==
    /\ last.fn = "menu_bar"
    /\ tab_opt.some
    /\ tab_opt.location = "Trash"
    /\ SelectedItems(tab_opt) # {}
    /\ tab_opt.view = "Grid"
    /\ config.show_details
    /\ ItemOf(last.tree, "Cut").type = "Button"
    /\ Offers(last.tree, SetSort("TrashedOn", TRUE))

=============================================================================
